---- MODULE Spec2Model ----
(***************************************************************************)
(* Inventory service (src/index.js): an in-memory catalog of items keyed   *)
(* by a counter-assigned id, with photo files kept in a cache directory.   *)
(* Every express handler is modelled up to its await points: a handler     *)
(* runs atomically until it awaits fs.unlink or hands over to res.sendFile,*)
(* and the multer upload of a multipart request writes its file before the *)
(* handler runs.                                                           *)
(***************************************************************************)
EXTENDS Integers, Sequences, FiniteSets, TLC

\* ---------------------------------------------------------------- bounds
\* Number of requests the server accepts in one run.
MaxRequests == 3
\* Largest value of the millisecond clock read by Date.now().
MaxClock == 1

\* Any number of the accepted requests may be in flight at once.
Slots == 1 .. MaxRequests

\* ---------------------------------------------------------------- values
\* A body field that is absent from the request (JavaScript undefined).
Undefined == "<undefined>"
\* Strings a client sends as inventory_name / InventoryName.
NameInputs == {Undefined, "", "n1"}
\* Strings a client sends as description / Description.
DescInputs == {Undefined, "", "d1"}
\* Values of the has_photo form field.
FlagInputs == {Undefined, "on", "off"}
\* Original names of uploaded files, as sequences of characters.
OrigNames == {<<"a", " ">>, <<"a", "_">>}
\* Contents of uploaded files.
Bytes == {"x", "y"}

\* Request methods a client uses.
Methods == {"GET", "POST", "PUT", "DELETE", "HEAD", "PATCH"}
\* Request paths a client asks for, by the pattern they match.
Paths == {"/register", "/inventory", "/inventory/:id", "/inventory/:id/photo",
          "/search", "/nothing"}

\* null as the value of item.Photo / req.file.
NoFile == [t |-> -1, name |-> <<>>]
\* null as the value of PhotoLink.
NullLink == [kind |-> "null", id |-> 0]
NoBody == [type |-> "none"]

VARIABLES
    inventoryItems,  \* the catalog: id -> item
    nextId,          \* the id counter
    files,           \* the cache directory: file name -> contents
    now,             \* the clock Date.now() reads
    detached,        \* items deleted from the catalog that a suspended handler still holds
    req,             \* the requests in flight, one per slot
    assigned,        \* history: the ids handed out by Register, in order
    arrived,         \* history: the number of requests accepted so far
    unlinkFailed     \* history: some fs.unlink has failed

vars == <<inventoryItems, nextId, files, now, detached, req, assigned, arrived,
          unlinkFailed>>

\* The :id a client asks for: every id handed out so far, in the catalog or
\* deleted from it, and the first id that has not been handed out.
IdInputs == 1 .. nextId

\* ------------------------------------------------------------ pure helpers
\* A presence check that lets the empty string through.
TruthyUndefinedOnly(v) == v # Undefined

\* JavaScript truthiness of a string-valued body field.
Truthy(v) == v # Undefined /\ v # ""

\* s.replace(/\s/g, '_') on a sequence of characters.
ReplaceWhitespace(s) == [i \in DOMAIN s |-> IF s[i] = " " THEN "_" ELSE s[i]]

\* multer's diskStorage filename callback.
UploadFilename(clock, originalname) ==
    [t |-> clock, name |-> ReplaceWhitespace(originalname)]

PhotoLinkOf(id) == [kind |-> "path", id |-> id]

\* A view that links to a photo whether or not the item has one.
prepareItemResponseAlwaysLinked(item) ==
    [ID |-> item.ID,
     InventoryName |-> item.InventoryName,
     Description |-> item.Description,
     PhotoLink |-> PhotoLinkOf(item.ID)]

prepareItemResponse(item) ==
    [ID |-> item.ID,
     InventoryName |-> item.InventoryName,
     Description |-> item.Description,
     PhotoLink |-> IF item.Photo # NoFile THEN PhotoLinkOf(item.ID) ELSE NullLink]

\* inventoryItems[id] is defined.
findItem(id) == id \in DOMAIN inventoryItems

\* A description stored as it was received, absent or not.
DescriptionAsReceived(description) == description

\* description || ''
DescriptionOrEmpty(description) == IF Truthy(description) THEN description ELSE ""

\* A counter that is read but not advanced.
PostIncrementStuck(n) == n

\* A counter that skips a value.
PostIncrementByTwo(n) == n + 2

\* nextId++ : the value the counter holds afterwards.
PostIncrement(n) == n + 1

\* f with key k removed / set.
Without(f, k) == [x \in DOMAIN f \ {k} |-> f[x]]
With(f, k, v) == [x \in DOMAIN f \cup {k} |-> IF x = k THEN v ELSE f[x]]

\* ------------------------------------------------------------- requests
\* The routes of the catalog operations, by the handler they lead to.
Route ==
    [Register     |-> <<"POST", "/register">>,
     List         |-> <<"GET", "/inventory">>,
     Get          |-> <<"GET", "/inventory/:id">>,
     Update       |-> <<"PUT", "/inventory/:id">>,
     Delete       |-> <<"DELETE", "/inventory/:id">>,
     GetPhoto     |-> <<"GET", "/inventory/:id/photo">>,
     ReplacePhoto |-> <<"PUT", "/inventory/:id/photo">>,
     Search       |-> <<"POST", "/search">>]

Routes == {Route[k] : k \in DOMAIN Route}

\* The methods the fallback middleware lets through.
allowed == {"GET", "POST", "PUT", "DELETE"}

\* express matches a HEAD request against the routes registered for GET.
RouteMethod(method) == IF method = "HEAD" THEN "GET" ELSE method

\* Some route is registered for the method and the path of the request.
Matches(method, path) == <<RouteMethod(method), path>> \in Routes

Idle == [kind |-> "none", pc |-> "idle", method |-> "", path |-> "", id |-> 0,
         name |-> Undefined, desc |-> Undefined, flag |-> Undefined,
         file |-> NoFile, bytes |-> "", target |-> NoFile, unlinked |-> "none",
         status |-> 0, body |-> NoBody]

NewRequest(kind, id, name, desc, flag, file) ==
    [Idle EXCEPT !.kind = kind, !.pc = "handler", !.method = Route[kind][1],
                 !.path = Route[kind][2], !.id = id, !.name = name,
                 !.desc = desc, !.flag = flag, !.file = file]

\* res.status(code).json(body): the handler has answered and holds nothing more.
Respond(r, code, body) == [r EXCEPT !.pc = "done", !.status = code, !.body = body]

\* No response is waiting to be delivered.  A response is delivered (Retire)
\* before anything else happens, which restricts no behaviour of the server:
\* delivery changes nothing the handlers read.
Quiet == \A s \in Slots : req[s].pc # "done"

\* The lowest free slot takes the next request.
Free(s) == /\ Quiet
           /\ req[s].pc = "idle"
           /\ \A t \in Slots : t < s => req[t].pc # "idle"

\* A request arrives and takes slot s.
Accept(s) == /\ Free(s)
             /\ arrived < MaxRequests
             /\ arrived' = arrived + 1
             /\ UNCHANGED unlinkFailed

Init ==
    /\ inventoryItems = <<>>
    /\ nextId = 1
    /\ files = <<>>
    /\ now = 0
    /\ detached = <<>>
    /\ req = [s \in Slots |-> Idle]
    /\ assigned = <<>>
    /\ arrived = 0
    /\ unlinkFailed = FALSE

\* Some file name, stored, referenced or held by a request, carries clock value t.
Stamped(t) ==
    \/ \E f \in DOMAIN files : f.t = t
    \/ \E id \in DOMAIN inventoryItems : inventoryItems[id].Photo.t = t
    \/ \E s \in Slots : req[s].file.t = t \/ req[s].target.t = t

\* Date.now() moves on.  The clock is read by uploads only, so it is followed
\* from the first upload that read its current value: before that, a later
\* value is indistinguishable from the current one.
Tick ==
    /\ Quiet
    /\ UNCHANGED <<arrived, unlinkFailed>>
    /\ Stamped(now)
    /\ now < MaxClock
    /\ now' = now + 1
    /\ UNCHANGED <<inventoryItems, nextId, files, detached, req, assigned>>

\* upload.single('photo'): multer names the file and writes it to the cache
\* directory before the route handler runs.  The text fields of the multipart
\* body are read by nobody before the handler, so they are drawn when it runs;
\* the request remembers the uploaded bytes where a later answer is compared
\* with them.
Upload(s, kind, id, originalname, bytes) ==
    LET filename == UploadFilename(now, originalname) IN
    /\ Accept(s)
    /\ files' = With(files, filename, bytes)
    /\ req' = [req EXCEPT ![s] =
                 [NewRequest(kind, id, Undefined, Undefined, Undefined, filename)
                    EXCEPT !.bytes = IF kind = "ReplacePhoto" THEN bytes ELSE ""]]
    /\ UNCHANGED <<inventoryItems, nextId, now, detached, assigned>>

\* app.post('/register'): the handler, run on request r in slot s.
RegisterHandler(s, r) ==
    IF ~Truthy(r.name)
    THEN /\ req' = [req EXCEPT ![s] =
                      IF r.file # NoFile
                      THEN [r EXCEPT !.pc = "cleanup", !.target = r.file, !.status = 400,
                                     !.body = [type |-> "error"], !.desc = Undefined]
                      ELSE Respond(r, 400, [type |-> "error"])]
         /\ UNCHANGED <<inventoryItems, nextId, files, now, detached, assigned>>
    ELSE LET newId == nextId
             item == [ID |-> newId, InventoryName |-> r.name,
                      Description |-> DescriptionOrEmpty(r.desc), Photo |-> r.file]
         IN /\ nextId' = PostIncrement(nextId)
            /\ inventoryItems' = With(inventoryItems, newId, item)
            /\ assigned' = Append(assigned, newId)
            /\ req' = [req EXCEPT ![s] =
                         Respond(r, 201, [type |-> "item", item |-> prepareItemResponse(item)])]
            /\ UNCHANGED <<files, now, detached>>

\* fs.unlink(path): removes the file, or fails (ENOENT when it is not there,
\* any other error leaves it in place).
Unlink(path, outcome) ==
    /\ outcome \in (IF path \in DOMAIN files THEN {"ok", "failed"} ELSE {"failed"})
    /\ files' = IF outcome = "ok" THEN Without(files, path) ELSE files
    /\ unlinkFailed' = (unlinkFailed \/ outcome = "failed")

\* POST /register without a photo part.
Register(s, name, desc) ==
    /\ Accept(s)
    /\ RegisterHandler(s, NewRequest("Register", 0, name, desc, Undefined, NoFile))

\* POST /register with a photo part: the upload comes first.
RegisterUpload(s, originalname, bytes) ==
    Upload(s, "Register", 0, originalname, bytes)

RegisterAfterUpload(s) ==
    /\ Quiet
    /\ UNCHANGED <<arrived, unlinkFailed>>
    /\ req[s].kind = "Register"
    /\ req[s].pc = "handler"
    /\ \E name \in NameInputs, desc \in DescInputs :
         RegisterHandler(s, [req[s] EXCEPT !.name = name, !.desc = desc])

\* The unlink started by a rejected /register completes; nobody waits for it.
RegisterCleanup(s) ==
    /\ Quiet
    /\ UNCHANGED arrived
    /\ req[s].kind = "Register"
    /\ req[s].pc = "cleanup"
    /\ \E outcome \in {"ok", "failed"} :
         /\ Unlink(req[s].target, outcome)
         /\ req' = [req EXCEPT ![s].pc = "done", ![s].unlinked = outcome]
    /\ UNCHANGED <<inventoryItems, nextId, now, detached, assigned>>

\* Object.values(inventoryItems): an object's integer keys are visited in
\* ascending order.
RECURSIVE KeysAscending(_)
KeysAscending(S) ==
    IF S = {} THEN <<>>
    ELSE LET m == CHOOSE x \in S : \A y \in S : x <= y
         IN <<m>> \o KeysAscending(S \ {m})

ObjectValues(map) ==
    LET keys == KeysAscending(DOMAIN map) IN [i \in DOMAIN keys |-> map[keys[i]]]

\* app.get('/inventory')
List(s) ==
    /\ Accept(s)
    /\ LET values == ObjectValues(inventoryItems)
           list == [i \in DOMAIN values |-> prepareItemResponse(values[i])]
       IN req' = [req EXCEPT ![s] =
                    Respond(NewRequest("List", 0, Undefined, Undefined, Undefined, NoFile),
                            200, [type |-> "list", list |-> list])]
    /\ UNCHANGED <<inventoryItems, nextId, files, now, detached, assigned>>

\* app.get('/inventory/:id')
Get(s, id) ==
    LET r == NewRequest("Get", id, Undefined, Undefined, Undefined, NoFile) IN
    /\ Accept(s)
    /\ req' = [req EXCEPT ![s] =
                 IF ~findItem(id)
                 THEN Respond(r, 404, [type |-> "error"])
                 ELSE Respond(r, 200, [type |-> "item",
                                       item |-> prepareItemResponse(inventoryItems[id])])]
    /\ UNCHANGED <<inventoryItems, nextId, files, now, detached, assigned>>

\* An update that assigns both fields whether or not they were supplied.
UpdatedItemOverwrite(item, InventoryName, Description) ==
    [item EXCEPT !.InventoryName = InventoryName, !.Description = Description]

\* if (InventoryName !== undefined) item.InventoryName = InventoryName;
\* if (Description !== undefined) item.Description = Description;
UpdatedItem(item, InventoryName, Description) ==
    [item EXCEPT
       !.InventoryName = IF InventoryName # Undefined THEN InventoryName ELSE @,
       !.Description = IF Description # Undefined THEN Description ELSE @]

\* app.put('/inventory/:id')
Update(s, id, InventoryName, Description) ==
    LET r == NewRequest("Update", id, InventoryName, Description, Undefined, NoFile) IN
    /\ Accept(s)
    /\ IF ~findItem(id)
       THEN /\ req' = [req EXCEPT ![s] = Respond(r, 404, [type |-> "error"])]
            /\ UNCHANGED inventoryItems
       ELSE LET item == UpdatedItem(inventoryItems[id], InventoryName, Description)
            IN /\ inventoryItems' = [inventoryItems EXCEPT ![id] = item]
               /\ req' = [req EXCEPT ![s] =
                            Respond(r, 200, [type |-> "item",
                                             item |-> prepareItemResponse(item)])]
    /\ UNCHANGED <<nextId, files, now, detached, assigned>>

\* Suspended ReplacePhoto handlers, other than slot s, that hold item id.
Holders(s, id) ==
    {t \in Slots \ {s} : /\ req[t].kind = "ReplacePhoto"
                         /\ req[t].pc \in {"unlinking", "resume"}
                         /\ req[t].id = id}

\* A delete that leaves the key in the catalog.
DeleteKeyKept(s, id) == UNCHANGED <<inventoryItems, detached>>

\* delete inventoryItems[id]: the key goes; the object lives on while a
\* suspended handler holds it.
DeleteKey(s, id) ==
    /\ inventoryItems' = Without(inventoryItems, id)
    /\ detached' = IF findItem(id) /\ Holders(s, id) # {}
                   THEN With(detached, id, inventoryItems[id])
                   ELSE detached

\* app.delete('/inventory/:id'), up to its await.
Delete(s, id) ==
    LET r == NewRequest("Delete", id, Undefined, Undefined, Undefined, NoFile) IN
    /\ Accept(s)
    /\ IF ~findItem(id)
       THEN /\ req' = [req EXCEPT ![s] = Respond(r, 404, [type |-> "error"])]
            /\ UNCHANGED <<inventoryItems, detached>>
       ELSE IF inventoryItems[id].Photo # NoFile
       THEN /\ req' = [req EXCEPT ![s] =
                         [r EXCEPT !.pc = "unlinking", !.target = inventoryItems[id].Photo]]
            /\ UNCHANGED <<inventoryItems, detached>>
       ELSE /\ DeleteKey(s, id)
            /\ req' = [req EXCEPT ![s] = Respond(r, 200, [type |-> "message", id |-> id])]
    /\ UNCHANGED <<nextId, files, now, assigned>>

\* await fs.unlink(...).catch(console.error) in the delete handler: the file
\* system acts; the handler has not resumed yet.
DeleteUnlink(s) ==
    /\ Quiet
    /\ UNCHANGED arrived
    /\ req[s].kind = "Delete"
    /\ req[s].pc = "unlinking"
    /\ \E outcome \in {"ok", "failed"} :
         /\ Unlink(req[s].target, outcome)
         /\ req' = [req EXCEPT ![s].pc = "resume", ![s].unlinked = outcome]
    /\ UNCHANGED <<inventoryItems, nextId, now, detached, assigned>>

\* The delete handler after its await.
DeleteResume(s) ==
    /\ Quiet
    /\ UNCHANGED <<arrived, unlinkFailed>>
    /\ req[s].kind = "Delete"
    /\ req[s].pc = "resume"
    /\ DeleteKey(s, req[s].id)
    /\ req' = [req EXCEPT ![s] =
                 Respond(req[s], 200, [type |-> "message", id |-> req[s].id])]
    /\ UNCHANGED <<nextId, files, now, assigned>>

\* A check that forgets the item may have no photo.
PhotoMissingItemOnly(id) == ~findItem(id)

\* !item || !item.Photo
PhotoMissing(id) == ~findItem(id) \/ inventoryItems[id].Photo = NoFile

\* app.get('/inventory/:id/photo'), up to res.sendFile.
GetPhoto(s, id) ==
    LET r == NewRequest("GetPhoto", id, Undefined, Undefined, Undefined, NoFile) IN
    /\ Accept(s)
    /\ req' = [req EXCEPT ![s] =
                 IF PhotoMissing(id)
                 THEN Respond(r, 404, [type |-> "error"])
                 ELSE [r EXCEPT !.pc = "sending", !.target = inventoryItems[id].Photo]]
    /\ UNCHANGED <<inventoryItems, nextId, files, now, detached, assigned>>

\* A sendFile callback that answers nothing when the read fails: the request
\* ends without a response.
SendFileSilentOnError(s) ==
    LET r == req[s] IN
    /\ Quiet
    /\ UNCHANGED <<arrived, unlinkFailed>>
    /\ r.kind \in {"GetPhoto", "Head"}
    /\ r.pc = "sending"
    /\ \E outcome \in (IF r.target \in DOMAIN files
                        THEN {"sent", "error", "aborted"} ELSE {"error"}) :
         req' = [req EXCEPT ![s] =
                   CASE outcome = "sent" ->
                          Respond(r, 200, IF r.method = "HEAD" THEN NoBody
                                          ELSE [type |-> "file", bytes |-> files[r.target]])
                     [] outcome = "error" -> [r EXCEPT !.pc = "done"]
                     [] outcome = "aborted" -> Respond(r, 200, [type |-> "aborted"])]
    /\ UNCHANGED <<inventoryItems, nextId, files, now, detached, assigned>>

\* res.sendFile and its callback: the file is streamed, or the read fails
\* before anything was sent (500), or it fails after the headers went out.
SendFile(s) ==
    LET r == req[s] IN
    /\ Quiet
    /\ UNCHANGED <<arrived, unlinkFailed>>
    /\ r.kind \in {"GetPhoto", "Head"}
    /\ r.pc = "sending"
    /\ \E outcome \in (IF r.target \in DOMAIN files
                        THEN {"sent", "error", "aborted"} ELSE {"error"}) :
         req' = [req EXCEPT ![s] =
                   CASE outcome = "sent" ->
                          Respond(r, 200, IF r.method = "HEAD" THEN NoBody
                                          ELSE [type |-> "file", bytes |-> files[r.target]])
                     [] outcome = "error" -> Respond(r, 500, [type |-> "error"])
                     [] outcome = "aborted" -> Respond(r, 200, [type |-> "aborted"])]
    /\ UNCHANGED <<inventoryItems, nextId, files, now, detached, assigned>>

\* app.put('/inventory/:id/photo'): the handler from `item.Photo = ...` on,
\* run on the item object the handler holds.
SetPhoto(s, r) ==
    LET id == r.id
        held == IF findItem(id) THEN inventoryItems[id] ELSE detached[id]
        item == [held EXCEPT !.Photo = r.file]
    IN /\ inventoryItems' = IF findItem(id) THEN [inventoryItems EXCEPT ![id] = item]
                            ELSE inventoryItems
       /\ detached' = IF findItem(id) THEN detached
                      ELSE IF Holders(s, id) = {} THEN Without(detached, id)
                      ELSE [detached EXCEPT ![id] = item]
       /\ req' = [req EXCEPT ![s] =
                    Respond(r, 200, [type |-> "item", item |-> prepareItemResponse(item)])]

\* A photo handler that looks for the file before it looks for the item.
ReplacePhotoHandlerFileFirst(s, r) ==
    IF r.file = NoFile
    THEN /\ req' = [req EXCEPT ![s] = Respond(r, 400, [type |-> "error"])]
         /\ UNCHANGED <<inventoryItems, detached>>
    ELSE IF ~findItem(r.id)
    THEN /\ req' = [req EXCEPT ![s] = Respond(r, 404, [type |-> "error"])]
         /\ UNCHANGED <<inventoryItems, detached>>
    ELSE IF inventoryItems[r.id].Photo # NoFile
    THEN /\ req' = [req EXCEPT ![s] =
                      [r EXCEPT !.pc = "unlinking", !.target = inventoryItems[r.id].Photo]]
         /\ UNCHANGED <<inventoryItems, detached>>
    ELSE SetPhoto(s, r)

\* app.put('/inventory/:id/photo'), up to its await, on request r in slot s.
ReplacePhotoHandler(s, r) ==
    IF ~findItem(r.id)
    THEN /\ req' = [req EXCEPT ![s] = Respond(r, 404, [type |-> "error"])]
         /\ UNCHANGED <<inventoryItems, detached>>
    ELSE IF r.file = NoFile
    THEN /\ req' = [req EXCEPT ![s] = Respond(r, 400, [type |-> "error"])]
         /\ UNCHANGED <<inventoryItems, detached>>
    ELSE IF inventoryItems[r.id].Photo # NoFile
    THEN /\ req' = [req EXCEPT ![s] =
                      [r EXCEPT !.pc = "unlinking", !.target = inventoryItems[r.id].Photo]]
         /\ UNCHANGED <<inventoryItems, detached>>
    ELSE SetPhoto(s, r)

\* PUT /inventory/:id/photo without a photo part.
ReplacePhoto(s, id) ==
    /\ Accept(s)
    /\ ReplacePhotoHandler(s, NewRequest("ReplacePhoto", id, Undefined, Undefined,
                                         Undefined, NoFile))
    /\ UNCHANGED <<nextId, files, now, assigned>>

\* PUT /inventory/:id/photo with a photo part: the upload comes first.
ReplacePhotoUpload(s, id, originalname, bytes) ==
    Upload(s, "ReplacePhoto", id, originalname, bytes)

ReplacePhotoAfterUpload(s) ==
    /\ Quiet
    /\ UNCHANGED <<arrived, unlinkFailed>>
    /\ req[s].kind = "ReplacePhoto"
    /\ req[s].pc = "handler"
    /\ ReplacePhotoHandler(s, req[s])
    /\ UNCHANGED <<nextId, files, now, assigned>>

\* await fs.unlink(...).catch(console.error) in the photo handler.
ReplacePhotoUnlink(s) ==
    /\ Quiet
    /\ UNCHANGED arrived
    /\ req[s].kind = "ReplacePhoto"
    /\ req[s].pc = "unlinking"
    /\ \E outcome \in {"ok", "failed"} :
         /\ Unlink(req[s].target, outcome)
         /\ req' = [req EXCEPT ![s].pc = "resume", ![s].unlinked = outcome]
    /\ UNCHANGED <<inventoryItems, nextId, now, detached, assigned>>

\* The photo handler after its await.
ReplacePhotoResume(s) ==
    /\ Quiet
    /\ UNCHANGED <<arrived, unlinkFailed>>
    /\ req[s].kind = "ReplacePhoto"
    /\ req[s].pc = "resume"
    /\ SetPhoto(s, req[s])
    /\ UNCHANGED <<nextId, files, now, assigned>>

\* A reduced view that carries PhotoLink always, null when it does not apply.
SearchResponseNullLink(item, has_photo) ==
    [ID |-> item.ID, InventoryName |-> item.InventoryName,
     Description |-> item.Description,
     PhotoLink |-> IF has_photo = "on" /\ item.Photo # NoFile
                   THEN PhotoLinkOf(item.ID) ELSE NullLink]

\* The reduced view of app.post('/search').
SearchResponse(item, has_photo) ==
    IF has_photo = "on" /\ item.Photo # NoFile
    THEN [ID |-> item.ID, InventoryName |-> item.InventoryName,
          Description |-> item.Description, PhotoLink |-> PhotoLinkOf(item.ID)]
    ELSE [ID |-> item.ID, InventoryName |-> item.InventoryName,
          Description |-> item.Description]

\* app.post('/search')
Search(s, id, has_photo) ==
    LET r == NewRequest("Search", id, Undefined, Undefined, has_photo, NoFile) IN
    /\ Accept(s)
    /\ req' = [req EXCEPT ![s] =
                 IF ~findItem(id)
                 THEN Respond(r, 404, [type |-> "error"])
                 ELSE Respond(r, 200, [type |-> "reduced",
                                       item |-> SearchResponse(inventoryItems[id], has_photo)])]
    /\ UNCHANGED <<inventoryItems, nextId, files, now, detached, assigned>>

\* A HEAD request on the path of a GET route: express runs the GET handler
\* and sends its status and headers without a body.
HeadRequest(s, path, id) ==
    LET r == [Idle EXCEPT !.kind = "Head", !.pc = "handler", !.method = "HEAD",
                          !.path = path, !.id = id]
    IN /\ Accept(s)
       /\ Matches("HEAD", path)
       /\ req' = [req EXCEPT ![s] =
                    CASE path = "/inventory" -> Respond([r EXCEPT !.id = 0], 200, NoBody)
                      [] path = "/inventory/:id" ->
                           Respond(r, IF ~findItem(id) THEN 404 ELSE 200, NoBody)
                      [] path = "/inventory/:id/photo" ->
                           IF PhotoMissing(id) THEN Respond(r, 404, NoBody)
                           ELSE [r EXCEPT !.pc = "sending",
                                          !.target = inventoryItems[id].Photo]]
       /\ UNCHANGED <<inventoryItems, nextId, files, now, detached, assigned>>

\* The answer of the last middleware.
EndpointNotFound == [type |-> "error", error |-> "Endpoint not found"]

\* The two middlewares after the routes: 405 for a method that is not allowed,
\* 404 for the rest.
Fallback(method) ==
    IF method \notin allowed
    THEN [status |-> 405, body |-> [type |-> "error", error |-> "Method not allowed"]]
    ELSE [status |-> 404, body |-> EndpointNotFound]

\* A request that matches no route reaches the fallback middlewares.
Unrouted(s, method, path) ==
    LET r == [Idle EXCEPT !.kind = "Unrouted", !.pc = "handler", !.method = method,
                          !.path = path]
    IN /\ Accept(s)
       /\ ~Matches(method, path)
       /\ req' = [req EXCEPT ![s] =
                    Respond(r, Fallback(method).status, Fallback(method).body)]
       /\ UNCHANGED <<inventoryItems, nextId, files, now, detached, assigned>>

\* The response has been delivered and the request is gone.  Slots carry no
\* meaning of their own: the requests in flight are kept in the lowest slots,
\* in their order of arrival.
Retire(s) ==
    /\ req[s].pc = "done"
    /\ UNCHANGED <<arrived, unlinkFailed>>
    /\ req' = [t \in Slots |-> IF t < s THEN req[t]
                               ELSE IF t + 1 \in Slots THEN req[t + 1] ELSE Idle]
    /\ UNCHANGED <<inventoryItems, nextId, files, now, detached, assigned>>

Next ==
    \/ Tick
    \/ \E s \in Slots, name \in NameInputs, desc \in DescInputs : Register(s, name, desc)
    \/ \E s \in Slots, originalname \in OrigNames, bytes \in Bytes :
          RegisterUpload(s, originalname, bytes)
    \/ \E s \in Slots : RegisterAfterUpload(s)
    \/ \E s \in Slots : RegisterCleanup(s)
    \/ \E s \in Slots : List(s)
    \/ \E s \in Slots, id \in IdInputs : Get(s, id)
    \/ \E s \in Slots, id \in IdInputs, name \in NameInputs, desc \in DescInputs :
          Update(s, id, name, desc)
    \/ \E s \in Slots, id \in IdInputs : Delete(s, id)
    \/ \E s \in Slots : DeleteUnlink(s)
    \/ \E s \in Slots : DeleteResume(s)
    \/ \E s \in Slots, id \in IdInputs : GetPhoto(s, id)
    \/ \E s \in Slots : SendFile(s)
    \/ \E s \in Slots, id \in IdInputs : ReplacePhoto(s, id)
    \/ \E s \in Slots, id \in IdInputs, originalname \in OrigNames, bytes \in Bytes :
          ReplacePhotoUpload(s, id, originalname, bytes)
    \/ \E s \in Slots : ReplacePhotoAfterUpload(s)
    \/ \E s \in Slots : ReplacePhotoUnlink(s)
    \/ \E s \in Slots : ReplacePhotoResume(s)
    \/ \E s \in Slots, id \in IdInputs, has_photo \in FlagInputs : Search(s, id, has_photo)
    \/ \E s \in Slots, path \in Paths, id \in IdInputs : HeadRequest(s, path, id)
    \/ \E s \in Slots, method \in Methods, path \in Paths : Unrouted(s, method, path)
    \/ \E s \in Slots : Retire(s)

Spec == Init /\ [][Next]_vars

\* What the event loop and the file system owe the request in slot s: a parsed
\* request reaches its handler, a started file operation completes, a handler
\* waiting for it resumes, and a response is delivered.
Continue(s) ==
    \/ RegisterAfterUpload(s)
    \/ RegisterCleanup(s)
    \/ DeleteUnlink(s)
    \/ DeleteResume(s)
    \/ SendFile(s)
    \/ ReplacePhotoAfterUpload(s)
    \/ ReplacePhotoUnlink(s)
    \/ ReplacePhotoResume(s)
    \/ Retire(s)

\* The server with every blob-store operation completing and no request in
\* flight left alone for ever.
FairSpec == Spec /\ \A s \in Slots : WF_vars(Continue(s))

\* ------------------------------------------------------------------ steps
\* Steps are told apart by what they do to the request in a slot.  Every step
\* but the delivery of a response starts from a state with no response waiting
\* (Quiet), and only then does a slot hold the same request before and after.

\* The step in which the request in slot s is answered.
Answers(s) == Quiet /\ req[s].status = 0 /\ req'[s].status # 0

\* The step in which the route handler of the request in slot s starts.
HandlerRuns(s) ==
    /\ Quiet
    /\ req[s].pc \in {"idle", "handler"}
    /\ req'[s].pc \notin {"idle", "handler"}

\* ----------------------------------------------------------------- claims

\* C1: the ids handed out by successful Register calls are strictly increasing
\* in the order they are handed out, so none is handed out twice, whatever
\* Update, Delete and ReplacePhoto requests run in between or concurrently.
C1_IdsStrictlyIncreasing ==
    \A i, j \in DOMAIN assigned : i < j => assigned[i] < assigned[j]

\* Two ids were handed out and the first item was deleted in between.
C1_Witness ==
    /\ Len(assigned) = 2
    /\ assigned[1] \notin DOMAIN inventoryItems
    /\ assigned[2] \in DOMAIN inventoryItems

\* C2 (as amended): a Register whose inventory_name is missing or empty is
\* answered 400 and changes neither the counter nor the catalog; a staged photo
\* is handed to an unlink the handler does not wait for, and the blob has left
\* the store when that unlink succeeds.
C2_RejectedRegisterCleansUp ==
    [][\A s \in Slots :
         /\ (HandlerRuns(s) /\ req'[s].kind = "Register"
                /\ req'[s].name \in {Undefined, ""})
              => /\ req'[s].status = 400
                 /\ nextId' = nextId
                 /\ inventoryItems' = inventoryItems
                 /\ req'[s].file # NoFile
                      => req'[s].pc = "cleanup" /\ req'[s].target = req'[s].file
         /\ (Quiet /\ req[s].pc = "cleanup" /\ req'[s].pc = "done")
              => /\ nextId' = nextId
                 /\ inventoryItems' = inventoryItems
                 /\ req'[s].unlinked = "ok" => req[s].target \notin DOMAIN files'
    ]_vars

\* A rejected Register has finished and its unlink removed the staged photo.
C2_Witness ==
    \E s \in Slots :
        /\ req[s].kind = "Register" /\ req[s].pc = "done" /\ req[s].status = 400
        /\ req[s].file # NoFile /\ req[s].unlinked = "ok"
        /\ req[s].file \notin DOMAIN files

\* C2 (as stated): a Register whose inventory_name is missing or empty is
\* answered 400 and changes neither the counter nor the catalog, and once it has
\* finished the photo staged for it is no longer in the blob store.
C2_RejectedRegisterLeavesNoBlob ==
    [][\A s \in Slots :
         /\ (HandlerRuns(s) /\ req'[s].kind = "Register"
                /\ req'[s].name \in {Undefined, ""})
              => /\ req'[s].status = 400
                 /\ nextId' = nextId
                 /\ inventoryItems' = inventoryItems
         /\ (Quiet /\ req'[s].kind = "Register" /\ req'[s].status = 400
                /\ req'[s].pc = "done"
                /\ req'[s].file # NoFile)
              => req'[s].file \notin DOMAIN files'
    ]_vars

\* C3: Get, Update, Delete, ReplacePhoto and SearchById on an id that is not in
\* the catalog answer 404 and leave the catalog, the counter and the blob store
\* as they were before the request, the photo a ReplacePhoto request carried
\* included.
C3_NotFoundNeverMutates ==
    [][\A s \in Slots :
         (/\ HandlerRuns(s)
          /\ req'[s].kind \in {"Get", "Update", "Delete", "ReplacePhoto", "Search"}
          /\ req'[s].id \notin DOMAIN inventoryItems)
         => /\ req'[s].status = 404
            /\ inventoryItems' = inventoryItems
            /\ nextId' = nextId
            /\ files' = files
            /\ req'[s].file # NoFile => req'[s].file \notin DOMAIN files'
    ]_vars

\* C4: every photo reference held by an item of the catalog names a blob that
\* is in the blob store.
C4_PhotoRefsExist ==
    \A id \in DOMAIN inventoryItems :
        inventoryItems[id].Photo # NoFile => inventoryItems[id].Photo \in DOMAIN files

\* C5: when ReplacePhoto answers success, the blob the item referenced before
\* is out of the blob store, the item in the catalog references the new blob,
\* and GetPhoto on the id would serve the uploaded bytes.
C5_ReplacePhotoSwapsBlob ==
    [][\A s \in Slots :
         (Answers(s) /\ req'[s].kind = "ReplacePhoto" /\ req'[s].status = 200)
         => /\ req'[s].target # NoFile => req'[s].target \notin DOMAIN files'
            /\ req'[s].id \in DOMAIN inventoryItems'
            /\ inventoryItems'[req'[s].id].Photo = req'[s].file
            /\ req'[s].file \in DOMAIN files'
            /\ files'[req'[s].file] = req'[s].bytes
    ]_vars

\* The ids handed out so far.
AssignedIds == {assigned[i] : i \in DOMAIN assigned}

\* What C6 says of the catalog: when Delete answers success the id is out of
\* the catalog (List does not show it, Get and GetPhoto answer 404), an id that
\* was handed out and is out of the catalog stays out, and Register never hands
\* it out again.
DeleteIsFinal ==
    /\ \A s \in Slots, id \in 1 .. MaxRequests :
         (Answers(s) /\ req'[s].kind = "Delete" /\ req'[s].status = 200
            /\ req'[s].id = id)
         => /\ ~findItem(id)'
            /\ PhotoMissing(id)'
            /\ \A i \in DOMAIN ObjectValues(inventoryItems)' :
                  ObjectValues(inventoryItems)'[i].ID # id
    /\ \A id \in AssignedIds :
         id \notin DOMAIN inventoryItems => id \notin DOMAIN inventoryItems'
    /\ \A i \in DOMAIN assigned' : i > Len(assigned) => assigned'[i] \notin AssignedIds

\* C6 (as amended): Delete is final for the catalog (DeleteIsFinal); the blob
\* the item referenced is removed best-effort: the handler waits for one unlink
\* of it before it answers, and the blob leaves the store when that unlink
\* succeeds.
C6_DeleteFinalBlobBestEffort ==
    [][/\ DeleteIsFinal
       /\ \A s \in Slots :
            /\ (Answers(s) /\ req'[s].kind = "Delete" /\ req'[s].status = 200
                   /\ req'[s].target # NoFile)
                 => req'[s].unlinked \in {"ok", "failed"}
            /\ (Quiet /\ req[s].kind = "Delete" /\ req[s].pc = "unlinking"
                   /\ req'[s].unlinked = "ok")
                 => req[s].target \in DOMAIN files /\ req[s].target \notin DOMAIN files'
    ]_vars

\* Delete has answered success for an item whose photo its unlink removed.
C6_Witness ==
    \E s \in Slots :
        /\ req[s].kind = "Delete" /\ req[s].pc = "done" /\ req[s].status = 200
        /\ req[s].unlinked = "ok"
        /\ req[s].target \notin DOMAIN files
        /\ req[s].id \notin DOMAIN inventoryItems

\* C6 (as stated): Delete is final for the catalog, and when it answers success
\* the blob the item referenced is no longer in the blob store.
C6_DeleteRemovesBlob ==
    [][/\ DeleteIsFinal
       /\ \A s \in Slots :
            (Answers(s) /\ req'[s].kind = "Delete" /\ req'[s].status = 200
               /\ req'[s].target # NoFile)
            => req'[s].target \notin DOMAIN files'
    ]_vars

\* C7: Update on an item of the catalog answers 200 and changes, in that item,
\* exactly the supplied fields; the item's ID and photo reference, every other
\* item, the counter and the blob store stay as they are, and the view in the
\* answer is that of the stored item.
C7_UpdateChangesOnlySupplied ==
    [][\A s \in Slots :
         (HandlerRuns(s) /\ req'[s].kind = "Update"
            /\ req'[s].id \in DOMAIN inventoryItems)
         => LET r == req'[s]
                old == inventoryItems[r.id]
                new == inventoryItems'[r.id]
            IN /\ r.status = 200
               /\ DOMAIN inventoryItems' = DOMAIN inventoryItems
               /\ \A id \in DOMAIN inventoryItems \ {r.id} :
                     inventoryItems'[id] = inventoryItems[id]
               /\ new.ID = old.ID
               /\ new.Photo = old.Photo
               /\ new.InventoryName =
                     IF r.name = Undefined THEN old.InventoryName ELSE r.name
               /\ new.Description =
                     IF r.desc = Undefined THEN old.Description ELSE r.desc
               /\ nextId' = nextId
               /\ files' = files
               /\ r.body = [type |-> "item",
                            item |-> [ID |-> new.ID,
                                      InventoryName |-> new.InventoryName,
                                      Description |-> new.Description,
                                      PhotoLink |-> IF new.Photo = NoFile THEN NullLink
                                                    ELSE PhotoLinkOf(new.ID)]]
    ]_vars

\* An Update that supplied only a description has been answered while the
\* catalog holds a second item.
C7_Witness ==
    \E s \in Slots :
        /\ req[s].kind = "Update" /\ req[s].pc = "done" /\ req[s].status = 200
        /\ req[s].name = Undefined /\ req[s].desc = "d1"
        /\ inventoryItems[req[s].id].InventoryName = "n1"
        /\ Cardinality(DOMAIN inventoryItems) = 2

\* C8: SearchById on an item of the catalog answers its ID, InventoryName and
\* Description; the answer has a PhotoLink field exactly when has_photo is 'on'
\* and the item has a photo, and no such field otherwise.  SearchById changes
\* no state.
C8_SearchReducedView ==
    [][\A s \in Slots :
         (HandlerRuns(s) /\ req'[s].kind = "Search")
         => /\ inventoryItems' = inventoryItems
            /\ nextId' = nextId
            /\ files' = files
            /\ req'[s].id \in DOMAIN inventoryItems
                 => LET r == req'[s]
                        item == inventoryItems[r.id]
                        view == r.body.item
                        linked == r.flag = "on" /\ item.Photo # NoFile
                    IN /\ r.status = 200
                       /\ view.ID = r.id
                       /\ view.InventoryName = item.InventoryName
                       /\ view.Description = item.Description
                       /\ DOMAIN view =
                            {"ID", "InventoryName", "Description"}
                              \cup (IF linked THEN {"PhotoLink"} ELSE {})
                       /\ linked => view.PhotoLink = PhotoLinkOf(r.id)
    ]_vars

\* A search with has_photo 'on' has answered with the photo link of an item
\* that has a photo.
C8_Witness ==
    \E s \in Slots :
        /\ req[s].kind = "Search" /\ req[s].pc = "done" /\ req[s].status = 200
        /\ req[s].flag = "on"
        /\ "PhotoLink" \in DOMAIN req[s].body.item

\* C9: every item of the catalog has a non-empty InventoryName.
C9_NameNeverEmpty ==
    \A id \in DOMAIN inventoryItems :
        inventoryItems[id].InventoryName \notin {"", Undefined}

\* C10: GetPhoto answers 404 exactly when the item is not in the catalog or has
\* no photo reference; otherwise it reads the blob and answers 200 or, when the
\* read fails, 500, never 404.  No step of GetPhoto changes the catalog, the
\* counter or the blob store.
C10_GetPhotoNotFoundExactly ==
    [][\A s \in Slots :
         /\ (HandlerRuns(s) /\ req'[s].kind = "GetPhoto")
              => LET r == req'[s]
                     absent == \/ r.id \notin DOMAIN inventoryItems
                               \/ inventoryItems[r.id].Photo = NoFile
                 IN /\ (r.status = 404) <=> absent
                    /\ ~absent => /\ r.status = 0
                                   /\ r.pc = "sending"
                                   /\ r.target = inventoryItems[r.id].Photo
                    /\ inventoryItems' = inventoryItems
                    /\ nextId' = nextId
                    /\ files' = files
         /\ (Quiet /\ req[s].pc = "sending" /\ req'[s].pc # "sending")
              => /\ req'[s].status \in {200, 500}
                 /\ req[s].target \notin DOMAIN files => req'[s].status = 500
                 /\ req'[s].body.type = "file"
                      => req'[s].body.bytes = files[req[s].target]
                 /\ inventoryItems' = inventoryItems
                 /\ nextId' = nextId
                 /\ files' = files
    ]_vars

\* GetPhoto found the item's photo reference, the blob was gone when it was
\* read, and the answer was 500.
C10_Witness ==
    \E s \in Slots :
        /\ req[s].kind = "GetPhoto" /\ req[s].pc = "done" /\ req[s].status = 500
        /\ req[s].target # NoFile
        /\ req[s].target \notin DOMAIN files

\* The standard view C11 describes, of a stored item.
StandardView(item) ==
    [ID |-> item.ID,
     InventoryName |-> item.InventoryName,
     Description |-> item.Description,
     PhotoLink |-> IF item.Photo = NoFile THEN NullLink
                   ELSE [kind |-> "path", id |-> item.ID]]

\* C11: the item view answered by Register, Get, Update and ReplacePhoto has
\* exactly the fields ID, InventoryName, Description and PhotoLink; PhotoLink is
\* null exactly when the item has no photo and is otherwise the path derived
\* from the ID, never the stored file name.  List answers exactly one such view
\* for every item of the catalog and nothing else.
C11_StandardItemView ==
    [][\A s \in Slots :
         /\ (Answers(s) /\ req'[s].kind \in {"Register", "Get", "Update", "ReplacePhoto"}
                /\ req'[s].status \in {200, 201})
              => LET r == req'[s]
                     view == r.body.item
                 IN /\ r.body.type = "item"
                    /\ DOMAIN view = {"ID", "InventoryName", "Description", "PhotoLink"}
                    /\ view.PhotoLink \in {NullLink, [kind |-> "path", id |-> view.ID]}
                    /\ view.ID \in DOMAIN inventoryItems'
                         => view = StandardView(inventoryItems'[view.ID])
                    /\ r.kind = "ReplacePhoto"
                         => view.ID = r.id /\ view.PhotoLink # NullLink
                    /\ r.kind \in {"Register", "Get", "Update"}
                         => view.ID \in DOMAIN inventoryItems'
         /\ (Answers(s) /\ req'[s].kind = "List")
              => LET list == req'[s].body.list
                 IN /\ req'[s].status = 200
                    /\ inventoryItems' = inventoryItems
                    /\ Len(list) = Cardinality(DOMAIN inventoryItems)
                    /\ \A id \in DOMAIN inventoryItems :
                          \E i \in DOMAIN list : list[i] = StandardView(inventoryItems[id])
                    /\ \A i \in DOMAIN list :
                          /\ list[i].ID \in DOMAIN inventoryItems
                          /\ list[i] = StandardView(inventoryItems[list[i].ID])
    ]_vars

\* List has answered two views, one with a null PhotoLink and one with the
\* derived path.
C11_Witness ==
    \E s \in Slots :
        /\ req[s].kind = "List" /\ req[s].pc = "done"
        /\ Len(req[s].body.list) = 2
        /\ \E i, j \in DOMAIN req[s].body.list :
              /\ req[s].body.list[i].PhotoLink = NullLink
              /\ req[s].body.list[j].PhotoLink = [kind |-> "path", id |-> j]

\* C12: a Register with a non-empty name answers 201, advances the counter by
\* exactly one and adds exactly one item: its ID is the previous counter value,
\* its InventoryName the supplied name, its Description the supplied
\* description or the empty string when none was supplied, its photo reference
\* the staged blob when a photo was supplied and null otherwise.  Every item
\* that was in the catalog is left as it was.
C12_RegisterAddsOneItem ==
    [][\A s \in Slots :
         (HandlerRuns(s) /\ req'[s].kind = "Register"
            /\ req'[s].name \notin {Undefined, ""})
         => LET r == req'[s] IN
            /\ r.status = 201
            /\ nextId' = nextId + 1
            /\ DOMAIN inventoryItems' = DOMAIN inventoryItems \cup {nextId}
            /\ nextId \notin DOMAIN inventoryItems
            /\ \A id \in DOMAIN inventoryItems : inventoryItems'[id] = inventoryItems[id]
            /\ inventoryItems'[nextId] =
                 [ID |-> nextId,
                  InventoryName |-> r.name,
                  Description |-> IF r.desc = Undefined THEN "" ELSE r.desc,
                  Photo |-> r.file]
            /\ r.file # NoFile => r.file = req[s].file
            /\ files' = files
            /\ r.body.item.ID = nextId
    ]_vars

\* A Register that carried a photo and no description has answered 201 while
\* the catalog held an item already.
C12_Witness ==
    \E s \in Slots :
        /\ req[s].kind = "Register" /\ req[s].pc = "done" /\ req[s].status = 201
        /\ req[s].file # NoFile /\ req[s].desc = Undefined
        /\ Cardinality(DOMAIN inventoryItems) = 2
        /\ inventoryItems[req[s].body.item.ID].Photo = req[s].file
        /\ inventoryItems[req[s].body.item.ID].Description = ""

\* C13: writes on one id are serialized, so the answers and the final state are
\* those of some serial run of the same requests.  Two consequences are stated
\* here.  A Delete that answers success removes an item that was in the catalog
\* until then: ids are never handed out twice, so a second success for the same
\* id would be answered with the id already out of the catalog.  A ReplacePhoto
\* that answers success leaves its new blob referenced by the item, in the
\* catalog.
C13_WritesSerialized ==
    [][\A s \in Slots :
         /\ (Answers(s) /\ req'[s].kind = "Delete" /\ req'[s].status = 200)
              => /\ req'[s].id \in DOMAIN inventoryItems
                 /\ req'[s].id \notin DOMAIN inventoryItems'
         /\ (Answers(s) /\ req'[s].kind = "ReplacePhoto" /\ req'[s].status = 200)
              => /\ req'[s].id \in DOMAIN inventoryItems'
                 /\ inventoryItems'[req'[s].id].Photo = req'[s].file
    ]_vars

\* C14: a request whose method is not GET, POST, PUT or DELETE is answered 405
\* whatever its path; a request with one of these methods that matches no
\* route is answered 404 with the body {error: "Endpoint not found"}.  Neither
\* changes the catalog, the counter or the blob store.
C14_FallbackAnswers ==
    [][\A s \in Slots :
         /\ (HandlerRuns(s) /\ req'[s].method \notin {"", "GET", "POST", "PUT", "DELETE"})
              => /\ req'[s].status = 405
                 /\ inventoryItems' = inventoryItems
                 /\ nextId' = nextId
                 /\ files' = files
         /\ (HandlerRuns(s) /\ req'[s].method \in {"GET", "POST", "PUT", "DELETE"}
                /\ <<req'[s].method, req'[s].path>> \notin Routes)
              => /\ req'[s].status = 404
                 /\ req'[s].body = [type |-> "error", error |-> "Endpoint not found"]
                 /\ inventoryItems' = inventoryItems
                 /\ nextId' = nextId
                 /\ files' = files
    ]_vars

C16_ReplacePhotoValidation ==
    [][\A s \in Slots :
         (HandlerRuns(s) /\ req'[s].kind = "ReplacePhoto")
         => /\ req'[s].id \notin DOMAIN inventoryItems => req'[s].status = 404
            /\ (req'[s].id \in DOMAIN inventoryItems /\ req'[s].file = NoFile)
                 => /\ req'[s].status = 400
                    /\ inventoryItems' = inventoryItems
                    /\ files' = files
                    /\ nextId' = nextId
    ]_vars

\* ReplacePhoto without a file has answered 400 for an item that keeps its
\* photo and the blob under it.
C16_Witness ==
    \E s \in Slots :
        /\ req[s].kind = "ReplacePhoto" /\ req[s].pc = "done" /\ req[s].status = 400
        /\ req[s].file = NoFile
        /\ req[s].id \in DOMAIN inventoryItems
        /\ inventoryItems[req[s].id].Photo \in DOMAIN files

\* C17: blob references do not collide.  Two uploads get different references,
\* two uploads of the same original name at the same clock value included, so
\* no two distinct items of the catalog reference the same blob.
C17_BlobRefsDistinct ==
    \A id1, id2 \in DOMAIN inventoryItems :
        (id1 # id2 /\ inventoryItems[id1].Photo # NoFile)
        => inventoryItems[id1].Photo # inventoryItems[id2].Photo

\* C18: whenever no request is in flight and no blob deletion has failed, every
\* blob of the blob store is referenced by some item of the catalog.
C18_NoOrphansAtQuiescence ==
    ((\A s \in Slots : req[s].pc = "idle") /\ ~unlinkFailed)
    => \A f \in DOMAIN files :
          \E id \in DOMAIN inventoryItems : inventoryItems[id].Photo = f

\* C19: in every reachable state the counter is at least 1, is 1 plus the
\* number of successful Register calls so far and is greater than every key of
\* the catalog, and every item is stored under its own ID; the counter never
\* decreases, it moves exactly when a Register answers success, and then by
\* one; an item keeps its ID as long as it is in the catalog.
C19_CounterAndIds ==
    /\ [](/\ nextId >= 1
          /\ nextId = 1 + Len(assigned)
          /\ \A key \in DOMAIN inventoryItems :
                key < nextId /\ inventoryItems[key].ID = key)
    /\ [][/\ nextId' >= nextId
          /\ (nextId' # nextId)
               <=> \E s \in Slots : /\ Answers(s)
                                    /\ req'[s].kind = "Register"
                                    /\ req'[s].status = 201
          /\ nextId' # nextId => nextId' = nextId + 1
          /\ \A key \in DOMAIN inventoryItems \cap DOMAIN inventoryItems' :
                inventoryItems'[key].ID = inventoryItems[key].ID
       ]_vars

\* Two items were registered, and the first has been renamed by an Update and
\* is still stored under its ID.
C19_Witness ==
    /\ nextId = 3
    /\ DOMAIN inventoryItems = {1, 2}
    /\ inventoryItems[1].InventoryName = ""
    /\ inventoryItems[1].ID = 1

\* The number of requests that have been answered.
Answered ==
    arrived - Cardinality({s \in Slots : req[s].pc # "idle" /\ req[s].status = 0})

\* C20: with every blob-store operation completing, every request is
\* eventually answered, and answered once: the n-th request accepted is
\* followed by the n-th answer, an answer that has been given is not replaced by
\* another, and a request leaves only when it has been answered.  This covers
\* the Delete and ReplacePhoto handlers that resume after another request
\* deleted or changed their item.
C20_EveryRequestAnsweredOnce ==
    /\ \A n \in 1 .. MaxRequests : (arrived >= n) ~> (Answered >= n)
    /\ [][/\ \A s \in Slots :
               (Quiet /\ req[s].status # 0) => req'[s].status = req[s].status
          /\ \A s \in Slots :
               (req[s].pc = "done") => req[s].status # 0
          /\ Answered' >= Answered
       ]_vars

\* A ReplacePhoto that resumed after a Delete took its item out of the catalog
\* has been answered.
C20_Witness ==
    \E s \in Slots :
        /\ req[s].kind = "ReplacePhoto" /\ req[s].pc = "done" /\ req[s].status = 200
        /\ req[s].unlinked # "none"
        /\ req[s].id \notin DOMAIN inventoryItems

====
